---- MODULE Spec2Model ----
(***************************************************************************)
(* Model of the notes backend (FastAPI + SQLite):                          *)
(*   src/notes_backend/src/api/notes_router.py  the five request handlers  *)
(*   src/notes_backend/src/api/db.py            connection, clock          *)
(*   src/notes_backend/src/api/models.py        payload shapes             *)
(*                                                                         *)
(* Every request handler is a sequence of SQL statements on a connection   *)
(* of its own.  A statement is one atomic step (SQLite serialises          *)
(* statements on the database file); the steps of different requests       *)
(* interleave.  Python's sqlite3 opens a transaction implicitly before an  *)
(* INSERT/UPDATE and not before a SELECT, so a handler's SELECTs run each  *)
(* in a read of their own, and its write is pending (invisible to other    *)
(* connections, holding the write lock) until conn.commit().               *)
(***************************************************************************)
EXTENDS Integers, Sequences, FiniteSets, TLC

(* ------------------------------ bounds --------------------------------- *)
\* Request-handling threads that may run concurrently.
NumProcs == 2
\* Rows the notes table may hold in Spec, and in SpecSeq.
MaxNotes == 1
MaxSeqNotes == 2
\* Last tick of the clock; a second has TicksPerSecond ticks.
MaxClock == 2
TicksPerSecond == 2
\* Largest offset a List request is given.
MaxOffset == 1
\* Rows of the stores SpecList starts from.
MaxListNotes == 3

(* ------------------------- program constants --------------------------- *)
\* Query(20, ge=1, le=200): the range of limit.
LimitMin == 1
LimitMax == 200
\* HTTP status codes: a handler's return, the POST route's status_code, the
\* HTTPExceptions, and an exception that leaves the handler.
OK == 200
Created == 201
BadRequest == 400
NotFound == 404
ServerError == 500

(* ------------------------------ values --------------------------------- *)
\* SQL NULL in deleted_date (timestamps are >= 0).
NULL == 0 - 1
\* Python None in an Optional[str] payload field (no character has code -1).
None == << 0 - 1 >>
\* Strings are sequences of character codes: "", "a", "b", "c", "x".
Empty == << >>
StrA == << 97 >>
StrB == << 98 >>
StrC == << 99 >>
StrX == << 120 >>
\* The strings of the end-to-end run: "T", "C", "C2".
StrT == << 84 >>
StrCap == << 67 >>
StrCap2 == << 67, 50 >>

Procs == 1 .. NumProcs
\* The thread that handles the requests when they come one at a time.
Worker == CHOOSE p \in Procs : TRUE
Titles == {Empty, StrA}
Contents == {Empty, StrX}

Min(a, b) == IF a <= b THEN a ELSE b
Max(a, b) == IF a >= b THEN a ELSE b

\* A row of table notes.
Row(i, t, c, cd, md, dd) ==
    [id |-> i, title |-> t, content |-> c,
     created_date |-> cd, modified_date |-> md, deleted_date |-> dd]
\* fetchone() found nothing.
NoRow == Row(0, Empty, Empty, 0, 0, NULL)
\* No transaction is open on the connection.
NoTxn == [notes |-> {}, seq |-> 0 - 1]

\* A request as the transport hands it to a handler.
Req(op, i, t, c, l, o, sb, so) ==
    [op |-> op, note_id |-> i, title |-> t, content |-> c,
     limit |-> l, offset |-> o, sort_by |-> sb, sort_order |-> so]
NoReq == Req("none", 0, None, None, 0, 0, "id", "asc")

\* models.py PaginatedNotes: the body list_notes returns.
PaginatedNotes(tot, its, l, o) ==
    [total |-> tot, items |-> its, limit |-> l, offset |-> o]
NoPage == PaginatedNotes(0, << >>, 0, 0)

\* A response to request r: the status, and the NoteOut or the PaginatedNotes.
Resp(r, st, n, pg) == [req |-> r, status |-> st, note |-> n, page |-> pg]
NoResp == Resp(NoReq, 0, NoRow, NoPage)
\* HTTPException(status_code=...): a response with no body.
Error(r, st) == Resp(r, st, NoRow, NoPage)
\* A handler returns a NoteOut.
NoteOut(r, st, row) == Resp(r, st, row, NoPage)

SortFields == {"created_date", "modified_date", "title", "id"}
SortOrders == {"asc", "desc"}

ListReq(l, o, sb, so) == Req("list", 0, None, None, l, o, sb, so)
GetReq(i) == Req("get", i, None, None, 0, 0, "id", "asc")
CreateReq(t, c) == Req("create", 0, t, c, 0, 0, "id", "asc")
UpdateReq(i, t, c) == Req("update", i, t, c, 0, 0, "id", "asc")
DeleteReq(i) == Req("delete", i, None, None, 0, 0, "id", "asc")

\* The requests of Spec: few payloads, every interleaving.
Requests ==
    {ListReq(LimitMin, 0, "id", "asc")}
    \cup {GetReq(i) : i \in 1 .. MaxNotes}
    \cup {CreateReq(Empty, Empty)}
    \cup {UpdateReq(i, StrA, None) : i \in 1 .. MaxNotes}
    \cup {UpdateReq(i, None, StrX) : i \in 1 .. MaxNotes}
    \cup {UpdateReq(i, None, None) : i \in 1 .. MaxNotes}
    \cup {DeleteReq(i) : i \in 1 .. MaxNotes}
\* The requests of SpecSeq: more payloads, one request at a time.
SeqRequests ==
    {ListReq(LimitMin, 1, "id", "asc"), ListReq(LimitMax, 0, "modified_date", "desc")}
    \cup {GetReq(i) : i \in 1 .. MaxSeqNotes}
    \cup {CreateReq(Empty, Empty), CreateReq(StrA, StrX)}
    \cup {UpdateReq(i, t, None) : i \in 1 .. MaxSeqNotes, t \in Titles \cup {None}}
    \cup {UpdateReq(i, None, c) : i \in 1 .. MaxSeqNotes, c \in Contents}
    \cup {UpdateReq(i, StrA, StrX) : i \in 1 .. MaxSeqNotes}
    \cup {DeleteReq(i) : i \in 1 .. MaxSeqNotes}
\* The requests of SpecEndToEnd: the calls of the end-to-end run on one note.
EndToEndRequests ==
    {CreateReq(StrT, StrCap), UpdateReq(1, None, StrCap2), DeleteReq(1), GetReq(1),
     ListReq(LimitMax, 0, "id", "asc")}
\* The requests of SpecList.
ListRequests ==
    {ListReq(l, o, sb, so) : l \in {LimitMin, LimitMin + 1, LimitMax},
                             o \in 0 .. MaxOffset, sb \in SortFields, so \in SortOrders}

(* ------------------------------- state --------------------------------- *)
VARIABLES
    notes,     \* the committed rows of table notes
    seq,       \* sqlite_sequence: the largest id AUTOINCREMENT has given out
    clock,     \* the wall clock, in ticks
    pc,        \* pc[p]: the statement request p executes next
    req,       \* req[p]: the request p is handling
    local,     \* local[p]: the handler's locals now, existing, total, note_id
    txn,       \* txn[p]: the uncommitted table of p's connection, or NoTxn
    conn,      \* conn[p]: p's connection is open
    resp,      \* the response the last step returned, NoResp when none
    del_ok     \* history: del_ok[i] counts the SoftDelete(i) that returned success

vars == << notes, seq, clock, pc, req, local, txn, conn, resp, del_ok >>

NoLocal == [now |-> 0, existing |-> NoRow, total |-> 0, note_id |-> 0]

(* ------------------------------ db.py ---------------------------------- *)
\* utc_now_iso: the clock cut to whole seconds.  The ISO-8601 text has a
\* fixed width, so texts order as their second counts do.
utc_now_iso == clock \div TicksPerSecond

\* Faulty variant: sqlite_connection without its finally: conn.close().
sqlite_connection_exit_Leak(p) == conn

\* sqlite_connection: __enter__ opens a connection, __exit__ closes it.
sqlite_connection_enter(p) == [conn EXCEPT ![p] = TRUE]
sqlite_connection_exit(p) == [conn EXCEPT ![p] = FALSE]

\* Another connection holds the write lock.
Locked(p) == \E q \in Procs \ {p} : txn[q] # NoTxn

(* ------------------------- SQL of the handlers ------------------------- *)
Active(tbl) == {r \in tbl : r.deleted_date = NULL}

\* SELECT ... WHERE id = ? AND deleted_date IS NULL   (fetchone)
SelectActiveById(tbl, i) ==
    IF \E r \in tbl : r.id = i /\ r.deleted_date = NULL
    THEN CHOOSE r \in tbl : r.id = i /\ r.deleted_date = NULL
    ELSE NoRow

\* SELECT ... WHERE id = ?   (fetchone)
SelectById(tbl, i) ==
    IF \E r \in tbl : r.id = i THEN CHOOSE r \in tbl : r.id = i ELSE NoRow

\* Faulty variant: the count forgets WHERE deleted_date IS NULL.
CountActive_All(tbl) == Cardinality(tbl)

\* SELECT COUNT(*) FROM notes WHERE deleted_date IS NULL
CountActive(tbl) == Cardinality(Active(tbl))

\* AUTOINCREMENT: one more than the largest id ever given out.
MaxId(tbl) == IF tbl = {} THEN 0 ELSE CHOOSE m \in {r.id : r \in tbl} :
                                         \A r \in tbl : r.id <= m
NextRowid(tbl, s) == Max(s, MaxId(tbl)) + 1

\* Faulty variant: the INSERT binds content and title in the wrong order.
InsertNote_Swapped(tbl, s, t, c, n) ==
    [notes |-> tbl \cup {Row(NextRowid(tbl, s), c, t, n, n, NULL)},
     seq |-> NextRowid(tbl, s)]

\* INSERT INTO notes (...) VALUES (?, ?, ?, ?, NULL)
InsertNote(tbl, s, t, c, n) ==
    [notes |-> tbl \cup {Row(NextRowid(tbl, s), t, c, n, n, NULL)},
     seq |-> NextRowid(tbl, s)]

\* Faulty variant: the UPDATE leaves modified_date as it was.
UpdateNote_DateKept(tbl, i, t, c, n) ==
    {IF r.id = i THEN [r EXCEPT !.title = t, !.content = c] ELSE r : r \in tbl}

\* UPDATE notes SET title = ?, content = ?, modified_date = ? WHERE id = ?
UpdateNote(tbl, i, t, c, n) ==
    {IF r.id = i THEN [r EXCEPT !.title = t, !.content = c, !.modified_date = n]
     ELSE r : r \in tbl}

\* Faulty variant: the UPDATE names created_date where it means modified_date.
SoftDeleteNote_CreatedSet(tbl, i, n) ==
    {IF r.id = i THEN [r EXCEPT !.deleted_date = n, !.created_date = n]
     ELSE r : r \in tbl}

\* UPDATE notes SET deleted_date = ?, modified_date = ? WHERE id = ?
SoftDeleteNote(tbl, i, n) ==
    {IF r.id = i THEN [r EXCEPT !.deleted_date = n, !.modified_date = n]
     ELSE r : r \in tbl}

\* Faulty variant: a full replace: an absent field is written as given.
MergeField_Replace(given, old) == given

\* The merge of update_note: a provided field wins, an absent one keeps the
\* value read by the handler's SELECT.
MergeField(given, old) == IF given # None THEN given ELSE old

(* ------------------------ ORDER BY / LIMIT / OFFSET -------------------- *)
\* BINARY collation: bytewise, a proper prefix sorts first.
RECURSIVE StrLess(_, _)
StrLess(s, t) ==
    IF t = << >> THEN FALSE
    ELSE IF s = << >> THEN TRUE
    ELSE IF Head(s) # Head(t) THEN Head(s) < Head(t)
    ELSE StrLess(Tail(s), Tail(t))

\* r sorts strictly before s on column sort_col.
KeyLess(sort_col, r, s) ==
    CASE sort_col = "id" -> r.id < s.id
      [] sort_col = "title" -> StrLess(r.title, s.title)
      [] sort_col = "created_date" -> r.created_date < s.created_date
      [] sort_col = "modified_date" -> r.modified_date < s.modified_date

\* _SORT_FIELDS: the column a sort_by value names.
_SORT_FIELDS(sort_by) ==
    CASE sort_by = "created_date" -> "created_date"
      [] sort_by = "modified_date" -> "modified_date"
      [] sort_by = "title" -> "title"
      [] sort_by = "id" -> "id"

\* Faulty variant: the directions are the wrong way round.
SortDir_Flipped(sort_order) == IF sort_order = "asc" THEN "DESC" ELSE "ASC"

\* sort_dir = "ASC" if sort_order.lower() == "asc" else "DESC"
SortDir(sort_order) == IF sort_order = "asc" THEN "ASC" ELSE "DESC"

\* r may stand before s in ORDER BY sort_col sort_dir.
InOrder(sort_col, sort_dir, r, s) ==
    IF sort_dir = "ASC" THEN ~KeyLess(sort_col, s, r) ELSE ~KeyLess(sort_col, r, s)

\* The orders in which ORDER BY may return the rows: rows with equal keys
\* come in an order the engine chooses.
Orderings(rows, sort_col, sort_dir) ==
    {f \in [1 .. Cardinality(rows) -> rows] :
        /\ \A i, j \in DOMAIN f : i # j => f[i] # f[j]
        /\ \A i \in DOMAIN f : i + 1 \in DOMAIN f =>
               InOrder(sort_col, sort_dir, f[i], f[i + 1])}

\* LIMIT ? OFFSET ?
LimitOffset(sorted, limit, offset) ==
    SubSeq(sorted, offset + 1, Min(offset + limit, Len(sorted)))

(* ------------------------------ steps ---------------------------------- *)
\* One more success for id i in the history.
Count(h, i) == IF i \in DOMAIN h THEN [h EXCEPT ![i] = @ + 1] ELSE h @@ (i :> 1)

\* The handler returns (or raises): its connection is closed, its locals are
\* gone and the response goes out.
Finish(p, r) ==
    /\ pc' = [pc EXCEPT ![p] = "idle"]
    /\ resp' = r
    /\ del_ok' = IF r.req.op = "delete" /\ r.status = OK
                 THEN Count(del_ok, r.req.note_id) ELSE del_ok
    /\ conn' = sqlite_connection_exit(p)
    /\ req' = [req EXCEPT ![p] = NoReq]
    /\ local' = [local EXCEPT ![p] = NoLocal]

\* The step returns nothing to the caller.
Silent == resp' = NoResp /\ UNCHANGED del_ok

Goto(p, label) == pc' = [pc EXCEPT ![p] = label]

SetLocal(p, field, v) == local' = [local EXCEPT ![p][field] = v]

\* The first statement of each handler.
FirstStep(op) ==
    CASE op = "list" -> "list_count"
      [] op = "get" -> "get_select"
      [] op = "create" -> "create_insert"
      [] op = "update" -> "update_select"
      [] op = "delete" -> "delete_select"

\* Faulty variant: update_note does not check its payload.
NoFieldGiven_Unchecked(r) == FALSE

\* update_note's check of its payload, before anything else.
NoFieldGiven(r) == r.op = "update" /\ r.title = None /\ r.content = None

\* A request arrives and its handler runs up to its first statement.
\* update_note answers 400 when neither field is given; create_note,
\* update_note and delete_note read the clock before they connect.
Receive(p, r) ==
    /\ pc[p] = "idle"
    /\ UNCHANGED << notes, seq, clock, txn, conn >>
    /\ IF NoFieldGiven(r)
       THEN /\ resp' = Error(r, BadRequest)
            /\ UNCHANGED del_ok
            /\ UNCHANGED << pc, req, local >>
       ELSE /\ req' = [req EXCEPT ![p] = r]
            /\ local' = [local EXCEPT ![p] =
                  [NoLocal EXCEPT !.now = IF r.op \in {"create", "update", "delete"}
                                          THEN utc_now_iso ELSE 0]]
            /\ Goto(p, FirstStep(r.op))
            /\ Silent

\* The table may take one more row (the bound of the model).
Room(r, max) ==
    r.op = "create" =>
        Cardinality(notes) + Cardinality({q \in Procs : pc[q] \in
            {"create_insert", "create_commit"}}) < max

\* Requests arrive at any time, also while others are being handled.
Start(p) == \E r \in Requests : Room(r, MaxNotes) /\ Receive(p, r)

\* Requests arrive one at a time: none while another is being handled.
StartSeq(p) == \E r \in SeqRequests : Room(r, MaxSeqNotes) /\ Receive(p, r)

\* The calls of the end-to-end run arrive one at a time, the Create on the
\* empty store.
StartEndToEnd(p) ==
    \E r \in EndToEndRequests : (r.op = "create" => notes = {}) /\ Receive(p, r)

\* One List request arrives, on a store nothing else touches.
StartList(p) == resp = NoResp /\ \E r \in ListRequests : Receive(p, r)

\* list_notes, first statement: the count of the active notes.
ListCount(p) ==
    /\ pc[p] = "list_count"
    /\ conn' = sqlite_connection_enter(p)
    /\ SetLocal(p, "total", CountActive(notes))
    /\ Goto(p, "list_rows")
    /\ UNCHANGED << notes, seq, clock, req, txn >>
    /\ Silent

\* list_notes, second statement: the page; then the connection is closed
\* and the PaginatedNotes returned.
ListRows(p) ==
    /\ pc[p] = "list_rows"
    /\ \E sorted \in Orderings(Active(notes), _SORT_FIELDS(req[p].sort_by),
                               SortDir(req[p].sort_order)) :
          Finish(p, Resp(req[p], OK, NoRow,
                         PaginatedNotes(local[p].total,
                                        LimitOffset(sorted, req[p].limit, req[p].offset),
                                        req[p].limit, req[p].offset)))
    /\ UNCHANGED << notes, seq, clock, txn >>

\* Faulty variant: get_note's SELECT forgets AND deleted_date IS NULL.
GetSelect_Unfiltered(p) ==
    /\ pc[p] = "get_select"
    /\ LET row == SelectById(notes, req[p].note_id) IN
          IF row = NoRow
          THEN Finish(p, Error(req[p], NotFound))
          ELSE Finish(p, NoteOut(req[p], OK, row))
    /\ UNCHANGED << notes, seq, clock, txn >>

\* get_note: one SELECT, 404 when it finds no active row.
GetSelect(p) ==
    /\ pc[p] = "get_select"
    /\ LET row == SelectActiveById(notes, req[p].note_id) IN
          IF row = NoRow
          THEN Finish(p, Error(req[p], NotFound))
          ELSE Finish(p, NoteOut(req[p], OK, row))
    /\ UNCHANGED << notes, seq, clock, txn >>

\* create_note: the INSERT, pending on the handler's connection.
CreateInsert(p) ==
    /\ pc[p] = "create_insert"
    /\ ~Locked(p)
    /\ conn' = sqlite_connection_enter(p)
    /\ txn' = [txn EXCEPT ![p] =
                 InsertNote(notes, seq, req[p].title, req[p].content, local[p].now)]
    /\ SetLocal(p, "note_id", NextRowid(notes, seq))
    /\ Goto(p, "create_commit")
    /\ UNCHANGED << notes, seq, clock, req >>
    /\ Silent

\* conn.commit(): the pending table becomes the committed one.
Commit(p, label) ==
    /\ txn[p] # NoTxn
    /\ notes' = txn[p].notes
    /\ seq' = txn[p].seq
    /\ txn' = [txn EXCEPT ![p] = NoTxn]
    /\ Goto(p, label)
    /\ UNCHANGED << clock, req, local, conn >>
    /\ Silent

CreateCommit(p) == pc[p] = "create_commit" /\ Commit(p, "create_reread")

\* create_note: the re-read by id, returned with 201.
CreateReread(p) ==
    /\ pc[p] = "create_reread"
    /\ Finish(p, NoteOut(req[p], Created, SelectById(notes, local[p].note_id)))
    /\ UNCHANGED << notes, seq, clock, txn >>

\* Faulty variant: update_note's SELECT forgets AND deleted_date IS NULL.
UpdateSelect_Unfiltered(p) ==
    /\ pc[p] = "update_select"
    /\ LET existing == SelectById(notes, req[p].note_id) IN
          IF existing = NoRow
          THEN Finish(p, Error(req[p], NotFound))
          ELSE /\ conn' = sqlite_connection_enter(p)
               /\ SetLocal(p, "existing", existing)
               /\ Goto(p, "update_write")
               /\ UNCHANGED << req >>
               /\ Silent
    /\ UNCHANGED << notes, seq, clock, txn >>

\* update_note: the SELECT of the active row, 404 when there is none.
UpdateSelect(p) ==
    /\ pc[p] = "update_select"
    /\ LET existing == SelectActiveById(notes, req[p].note_id) IN
          IF existing = NoRow
          THEN Finish(p, Error(req[p], NotFound))
          ELSE /\ conn' = sqlite_connection_enter(p)
               /\ SetLocal(p, "existing", existing)
               /\ Goto(p, "update_write")
               /\ UNCHANGED << req >>
               /\ Silent
    /\ UNCHANGED << notes, seq, clock, txn >>

\* update_note: the UPDATE by id, pending on the handler's connection.
UpdateWrite(p) ==
    /\ pc[p] = "update_write"
    /\ ~Locked(p)
    /\ txn' = [txn EXCEPT ![p] =
                 [notes |-> UpdateNote(notes, req[p].note_id,
                                MergeField(req[p].title, local[p].existing.title),
                                MergeField(req[p].content, local[p].existing.content),
                                local[p].now),
                  seq |-> seq]]
    /\ Goto(p, "update_commit")
    /\ UNCHANGED << notes, seq, clock, req, local, conn >>
    /\ Silent

UpdateCommit(p) == pc[p] = "update_commit" /\ Commit(p, "update_reread")

\* update_note: the re-read by id, returned with 200.
UpdateReread(p) ==
    /\ pc[p] = "update_reread"
    /\ Finish(p, NoteOut(req[p], OK, SelectById(notes, req[p].note_id)))
    /\ UNCHANGED << notes, seq, clock, txn >>

\* Faulty variant: delete_note's SELECT forgets AND deleted_date IS NULL.
DeleteSelect_Unfiltered(p) ==
    /\ pc[p] = "delete_select"
    /\ LET row == SelectById(notes, req[p].note_id) IN
          IF row = NoRow
          THEN Finish(p, Error(req[p], NotFound))
          ELSE /\ conn' = sqlite_connection_enter(p)
               /\ Goto(p, "delete_write")
               /\ UNCHANGED << req, local >>
               /\ Silent
    /\ UNCHANGED << notes, seq, clock, txn >>

\* delete_note: the SELECT of the active row, 404 when there is none.
DeleteSelect(p) ==
    /\ pc[p] = "delete_select"
    /\ LET row == SelectActiveById(notes, req[p].note_id) IN
          IF row = NoRow
          THEN Finish(p, Error(req[p], NotFound))
          ELSE /\ conn' = sqlite_connection_enter(p)
               /\ Goto(p, "delete_write")
               /\ UNCHANGED << req, local >>
               /\ Silent
    /\ UNCHANGED << notes, seq, clock, txn >>

\* delete_note: the UPDATE by id, pending on the handler's connection.
DeleteWrite(p) ==
    /\ pc[p] = "delete_write"
    /\ ~Locked(p)
    /\ txn' = [txn EXCEPT ![p] =
                 [notes |-> SoftDeleteNote(notes, req[p].note_id, local[p].now),
                  seq |-> seq]]
    /\ Goto(p, "delete_commit")
    /\ UNCHANGED << notes, seq, clock, req, local, conn >>
    /\ Silent

DeleteCommit(p) == pc[p] = "delete_commit" /\ Commit(p, "delete_reread")

\* delete_note: the re-read by id, returned with 200.
DeleteReread(p) ==
    /\ pc[p] = "delete_reread"
    /\ Finish(p, NoteOut(req[p], OK, SelectById(notes, req[p].note_id)))
    /\ UNCHANGED << notes, seq, clock, txn >>

\* The write lock stays taken for longer than the connection waits: the
\* write raises, the connection is closed and the request fails.
Busy(p) ==
    /\ pc[p] \in {"create_insert", "update_write", "delete_write"}
    /\ Locked(p)
    /\ Finish(p, Error(req[p], ServerError))
    /\ UNCHANGED << notes, seq, clock, txn >>

\* Faulty variant: the write of an interrupted handler stays in the table.
Abort_WriteKept(p) ==
    /\ pc[p] \in {"create_commit", "update_commit", "delete_commit"}
    /\ notes' = txn[p].notes
    /\ seq' = txn[p].seq
    /\ txn' = [txn EXCEPT ![p] = NoTxn]
    /\ Finish(p, Error(req[p], ServerError))
    /\ UNCHANGED << clock >>

\* The handler is interrupted between its write and its commit: closing the
\* connection rolls the pending write back.
Abort(p) ==
    /\ pc[p] \in {"create_commit", "update_commit", "delete_commit"}
    /\ txn' = [txn EXCEPT ![p] = NoTxn]
    /\ Finish(p, Error(req[p], ServerError))
    /\ UNCHANGED << notes, seq, clock >>

\* Time passes.
Tick ==
    /\ clock < MaxClock
    /\ clock' = clock + 1
    /\ UNCHANGED << notes, seq, pc, req, local, txn, conn >>
    /\ Silent

(* --------------------------- specifications ---------------------------- *)
Init ==
    /\ notes = {}
    /\ seq = 0
    /\ clock = 0
    /\ pc = [p \in Procs |-> "idle"]
    /\ req = [p \in Procs |-> NoReq]
    /\ local = [p \in Procs |-> NoLocal]
    /\ txn = [p \in Procs |-> NoTxn]
    /\ conn = [p \in Procs |-> FALSE]
    /\ resp = NoResp
    /\ del_ok = << >>

Step(p) ==
    \/ ListCount(p) \/ ListRows(p)
    \/ GetSelect(p)
    \/ CreateInsert(p) \/ CreateCommit(p) \/ CreateReread(p)
    \/ UpdateSelect(p) \/ UpdateWrite(p) \/ UpdateCommit(p) \/ UpdateReread(p)
    \/ DeleteSelect(p) \/ DeleteWrite(p) \/ DeleteCommit(p) \/ DeleteReread(p)

\* Concurrent requests: any interleaving of the handlers' statements.
Next ==
    \/ \E p \in Procs : Start(p)
    \/ \E p \in Procs : Step(p)
    \/ \E p \in Procs : Busy(p)
    \/ \E p \in Procs : Abort(p)
    \/ Tick

Spec == Init /\ [][Next]_vars

\* One request at a time: each handler runs from its first statement to its
\* return before the next request arrives.
NextSeq ==
    \/ StartSeq(Worker)
    \/ Step(Worker)
    \/ Abort(Worker)
    \/ Tick

SpecSeq == Init /\ [][NextSeq]_vars

\* The end-to-end run: Create, Update, SoftDelete, Get and List of one note,
\* one request at a time, with any time between them.
NextEndToEnd ==
    \/ StartEndToEnd(Worker)
    \/ Step(Worker)
    \/ Abort(Worker)
    \/ Tick

SpecEndToEnd == Init /\ [][NextEndToEnd]_vars

\* The rows a store of SpecList is drawn from: active notes of each title,
\* created and modified at different seconds, and a soft-deleted one.
ListRowKinds ==
    {Row(0, StrA, StrX, 0, 0, NULL), Row(0, StrA, StrX, 1, 1, NULL),
     Row(0, StrB, StrX, 0, 1, NULL), Row(0, StrB, StrX, 1, 1, NULL),
     Row(0, StrC, StrX, 0, 0, NULL), Row(0, StrC, StrX, 0, 1, NULL),
     Row(0, StrB, StrX, 0, 1, 1)}

\* Any store of up to MaxListNotes notes, ids 1..n as AUTOINCREMENT gives them.
InitList ==
    /\ \E n \in 0 .. MaxListNotes : \E f \in [1 .. n -> ListRowKinds] :
          /\ notes = {[f[i] EXCEPT !.id = i] : i \in 1 .. n}
          /\ seq = n
    /\ clock = MaxClock
    /\ pc = [p \in Procs |-> "idle"]
    /\ req = [p \in Procs |-> NoReq]
    /\ local = [p \in Procs |-> NoLocal]
    /\ txn = [p \in Procs |-> NoTxn]
    /\ conn = [p \in Procs |-> FALSE]
    /\ resp = NoResp
    /\ del_ok = << >>

\* One List request on each store, with no other operation in between.
NextList ==
    \/ StartList(Worker)
    \/ ListCount(Worker)
    \/ ListRows(Worker)

SpecList == InitList /\ [][NextList]_vars

(* ------------------------------ claims --------------------------------- *)
\* The stored row with id i (NoRow when there is none), before and after a step.
RowOf(i) == SelectById(notes, i)
RowOfNext(i) == SelectById(notes', i)
IsDeleted(i) == \E r \in notes : r.id = i /\ r.deleted_date # NULL
IsActive(i) == \E r \in notes : r.id = i /\ r.deleted_date = NULL
\* Request p executes the statement at label from, and returns.
Returns(p, from) == pc[p] = from /\ pc'[p] = "idle"
\* Request p executes the statement at label from, and goes on to label to.
Moves(p, from, to) == pc[p] = from /\ pc'[p] = to
ItemsOf(r) == {r.page.items[k] : k \in DOMAIN r.page.items}

\* C1: once SoftDelete(id) has returned success, every later Get(id) returns
\* NotFound and no later List result holds a note with that id; a
\* deleted_date that is non-null never becomes null again.
C1_SoftDeleteIsFinal ==
    [][/\ \A r \in notes : r.deleted_date # NULL =>
              \E r2 \in notes' : r2.id = r.id /\ r2.deleted_date # NULL
       /\ \A p \in Procs :
              Returns(p, "get_select") /\ req[p].note_id \in DOMAIN del_ok =>
                  resp' = Error(req[p], NotFound)
       /\ \A p \in Procs :
              Returns(p, "list_rows") =>
                  \A n \in ItemsOf(resp') : n.id \notin DOMAIN del_ok]_vars

\* A Get of an id whose SoftDelete had returned success has been answered.
C1_Witness ==
    /\ resp.req.op = "get"
    /\ resp.req.note_id \in DOMAIN del_ok
    /\ resp.status = NotFound

\* C2: a successful Update of an active note sets each provided field, keeps
\* each absent field, sets modified_date to the request's time, leaves
\* created_date and deleted_date alone and leaves every other note unchanged.
C2_UpdateMerges ==
    [][\A p \in Procs :
          Moves(p, "update_commit", "update_reread") /\ IsActive(req[p].note_id) =>
              LET old == RowOf(req[p].note_id)
                  new == RowOfNext(req[p].note_id)
              IN  /\ new.title = IF req[p].title # None THEN req[p].title ELSE old.title
                  /\ new.content =
                         IF req[p].content # None THEN req[p].content ELSE old.content
                  /\ new.modified_date = local[p].now
                  /\ local[p].now <= utc_now_iso
                  /\ new.created_date = old.created_date
                  /\ new.deleted_date = old.deleted_date
                  /\ new.id = old.id
                  /\ notes' \ {new} = notes \ {old}]_vars

\* An Update that gave only a title has returned a note that kept its
\* non-empty content, with another note in the store.
C2_Witness ==
    /\ resp.req.op = "update"
    /\ resp.status = OK
    /\ resp.req.title = Empty
    /\ resp.req.content = None
    /\ resp.note.title = Empty
    /\ resp.note.content = StrX
    /\ resp.note.modified_date > resp.note.created_date
    /\ resp.note \in notes
    /\ Cardinality(notes) = 2

\* Request p has made its check and not yet returned its re-read.
InReadModifyWrite(p) ==
    pc[p] \in {"update_write", "update_commit", "update_reread",
               "delete_write", "delete_commit", "delete_reread"}

\* C3: between the check and the write, and between the write and the
\* re-read, of one Update or SoftDelete no other request's write to the
\* same id takes effect.
C3_ReadModifyWriteAtomic ==
    [][\A p \in Procs :
          InReadModifyWrite(p) /\ pc'[p] = pc[p] =>
              RowOfNext(req[p].note_id) = RowOf(req[p].note_id)]_vars

\* C4: once a note is soft-deleted, no Update or SoftDelete changes its
\* title, content, modified_date or deleted_date.
C4_DeletedIsTerminal ==
    [][\A r \in notes : r.deleted_date # NULL => r \in notes']_vars

\* C5: Get returns the stored note exactly when the id exists and is not
\* soft-deleted, NotFound otherwise; Get, Update and SoftDelete answer a
\* soft-deleted id as they answer an id that was never created.
C5_GetAndNotFound ==
    [][\A p \in Procs :
          /\ Returns(p, "get_select") =>
                 IF IsActive(req[p].note_id)
                 THEN resp' = NoteOut(req[p], OK, RowOf(req[p].note_id))
                 ELSE resp' = Error(req[p], NotFound)
          /\ pc[p] \in {"get_select", "update_select", "delete_select"}
                 /\ pc'[p] # pc[p] /\ ~IsActive(req[p].note_id) =>
                 /\ pc'[p] = "idle"
                 /\ resp' = Error(req[p], NotFound)
                 /\ notes' = notes]_vars

\* An Update of a soft-deleted id has been answered NotFound.
C5_Witness ==
    /\ resp.req.op = "update"
    /\ resp.status = NotFound
    /\ IsDeleted(resp.req.note_id)

\* C6: a successful Create stores and returns a note with the given title
\* and content (empty strings too), created_date = modified_date,
\* deleted_date null and an id no note stored before has; the returned note
\* is the stored row.
C6_CreateStoresFreshNote ==
    [][\A p \in Procs :
          /\ Moves(p, "create_commit", "create_reread") =>
                 \E n \in notes' :
                     /\ notes' = notes \cup {n}
                     /\ \A r \in notes : r.id # n.id
                     /\ n.id >= 1
                     /\ n.title = req[p].title
                     /\ n.content = req[p].content
                     /\ n.created_date = n.modified_date
                     /\ n.created_date = local[p].now
                     /\ n.deleted_date = NULL
          /\ Returns(p, "create_reread") =>
                 /\ resp'.status = Created
                 /\ resp'.note \in notes'
                 /\ resp'.note.id = local[p].note_id
                 /\ resp'.note.title = req[p].title
                 /\ resp'.note.content = req[p].content
                 /\ resp'.note.created_date = resp'.note.modified_date
                 /\ resp'.note.deleted_date = NULL
                 /\ \A r \in notes : r.id = resp'.note.id => r = resp'.note]_vars

\* A Create with empty strings has returned the second note of a store whose
\* first note is soft-deleted.
C6_Witness ==
    /\ resp.req.op = "create"
    /\ resp.status = Created
    /\ resp.req.title = Empty
    /\ resp.req.content = Empty
    /\ resp.note \in notes
    /\ resp.note.id = 2
    /\ IsDeleted(1)

\* C7: SoftDelete twice in sequence on an active id gives success, with the
\* returned note's deleted_date = modified_date = the delete time, and then
\* NotFound; the second call changes nothing.
C7_SoftDeleteTwice ==
    [][\A p \in Procs :
          /\ pc[p] = "delete_select" /\ pc'[p] # pc[p] /\ IsActive(req[p].note_id) =>
                 pc'[p] = "delete_write"
          /\ Returns(p, "delete_reread") =>
                 /\ resp'.status = OK
                 /\ resp'.note = RowOf(req[p].note_id)
                 /\ resp'.note.id = req[p].note_id
                 /\ resp'.note.deleted_date = local[p].now
                 /\ resp'.note.modified_date = local[p].now
          /\ pc[p] = "delete_select" /\ pc'[p] # pc[p]
                 /\ req[p].note_id \in DOMAIN del_ok =>
                 /\ resp' = Error(req[p], NotFound)
                 /\ pc'[p] = "idle"
                 /\ notes' = notes
                 /\ del_ok' = del_ok]_vars

\* The second SoftDelete of an id has been answered NotFound.
C7_Witness ==
    /\ resp.req.op = "delete"
    /\ resp.status = NotFound
    /\ resp.req.note_id \in DOMAIN del_ok
    /\ del_ok[resp.req.note_id] = 1
    /\ IsDeleted(resp.req.note_id)

\* C8: every stored note has modified_date >= created_date, under any
\* interleaving of concurrent requests.
C8_ModifiedNotBeforeCreated ==
    \A r \in notes : r.modified_date >= r.created_date

\* C9: a List that runs alone returns total = the number of active notes,
\* only active notes, exactly min(limit, max(0, total - offset)) of them, and
\* echoes limit and offset.
C9_ListPage ==
    (resp.req.op = "list" /\ resp.status = OK) =>
        /\ resp.page.total = Cardinality({r \in notes : r.deleted_date = NULL})
        /\ \A n \in ItemsOf(resp) : n \in notes /\ n.deleted_date = NULL
        /\ Len(resp.page.items) =
               Min(resp.req.limit, Max(0, resp.page.total - resp.req.offset))
        /\ Cardinality(ItemsOf(resp)) = Len(resp.page.items)
        /\ resp.page.limit = resp.req.limit
        /\ resp.page.offset = resp.req.offset

\* List(limit = 1, offset = 0) has returned one item and total = 2 from a
\* store with a soft-deleted note.
C9_Witness ==
    /\ resp.req.op = "list"
    /\ resp.status = OK
    /\ resp.req.limit = 1
    /\ resp.req.offset = 0
    /\ resp.page.total = 2
    /\ Len(resp.page.items) = 1
    /\ Cardinality(notes) = 3

\* The value of sort field f in row r is at most that in row s.
FieldLeq(f, r, s) ==
    CASE f = "id" -> r.id <= s.id
      [] f = "title" -> r.title = s.title \/ StrLess(r.title, s.title)
      [] f = "created_date" -> r.created_date <= s.created_date
      [] f = "modified_date" -> r.modified_date <= s.modified_date
\* r may come before s in the result of request q.
MayPrecede(q, r, s) ==
    IF q.sort_order = "asc" THEN FieldLeq(q.sort_by, r, s) ELSE FieldLeq(q.sort_by, s, r)
TitlesOf(its) == [k \in DOMAIN its |-> its[k].title]

\* C10: List returns its items in non-decreasing order of the sort field for
\* asc and non-increasing order for desc; the page is the slice
\* [offset, offset + limit) of the sorted active notes; notes titled b, a, c
\* come back a, b, c by title asc and c, b, a by title desc.
C10_ListSorted ==
    (resp.req.op = "list" /\ resp.status = OK) =>
        LET q == resp.req
            its == resp.page.items
            active == {r \in notes : r.deleted_date = NULL}
            rest == active \ ItemsOf(resp)
        IN  /\ \A i, j \in DOMAIN its : i < j => MayPrecede(q, its[i], its[j])
            /\ \E before \in SUBSET rest :
                  /\ Cardinality(before) = Min(q.offset, Cardinality(active))
                  /\ \A b \in before : \A x \in ItemsOf(resp) \cup (rest \ before) :
                         MayPrecede(q, b, x)
                  /\ \A x \in ItemsOf(resp) : \A a \in rest \ before :
                         MayPrecede(q, x, a)
                  /\ Len(its) < q.limit => rest = before
            /\ ({r.id : r \in active} = {1, 2, 3}
                  /\ RowOf(1).title = StrB /\ RowOf(2).title = StrA
                  /\ RowOf(3).title = StrC
                  /\ q.sort_by = "title" /\ q.limit = LimitMax /\ q.offset = 0) =>
                  TitlesOf(its) = IF q.sort_order = "asc" THEN << StrA, StrB, StrC >>
                                  ELSE << StrC, StrB, StrA >>

\* Notes titled b, a, c have been listed by title, descending: c, b, a.
C10_Witness ==
    /\ resp.req.op = "list"
    /\ resp.status = OK
    /\ resp.req.sort_by = "title"
    /\ resp.req.sort_order = "desc"
    /\ RowOf(1).title = StrB /\ RowOf(2).title = StrA /\ RowOf(3).title = StrC
    /\ TitlesOf(resp.page.items) = << StrC, StrB, StrA >>

\* C11: an Update that gives neither title nor content is answered 400 in a
\* step that opens no connection and reads and writes nothing, whatever the
\* id: missing, active or soft-deleted; no handler ever reaches a statement
\* with such a payload.
C11_EmptyUpdateRejected ==
    [][/\ (resp'.req.op = "update" /\ resp'.req.title = None
              /\ resp'.req.content = None) =>
              /\ resp'.status = BadRequest
              /\ resp'.note = NoRow
              /\ UNCHANGED << notes, seq, txn, conn, pc, req, local, del_ok >>
       /\ \A p \in Procs :
              req'[p].op = "update" =>
                  req'[p].title # None \/ req'[p].content # None]_vars

\* An Update with neither field, of a soft-deleted id, has been answered 400.
C11_Witness ==
    /\ resp = Error(UpdateReq(1, None, None), BadRequest)
    /\ IsDeleted(1)

CommitLabels == {"create_commit", "update_commit", "delete_commit"}

\* The step is the commit of request p, and it applies the whole of p's
\* Create, Update or SoftDelete to the table as it stood.
AppliesWhole(p) ==
    LET r == req[p]
        n == local[p].now
    IN  \/ /\ Moves(p, "create_commit", "create_reread")
           /\ \A x \in notes : x.id # local[p].note_id
           /\ notes' = notes \cup
                  {Row(local[p].note_id, r.title, r.content, n, n, NULL)}
        \/ /\ Moves(p, "update_commit", "update_reread")
           /\ \E old \in notes :
                  /\ old.id = r.note_id
                  /\ notes' = (notes \ {old}) \cup
                         {[old EXCEPT
                            !.title = IF r.title # None THEN r.title
                                      ELSE local[p].existing.title,
                            !.content = IF r.content # None THEN r.content
                                        ELSE local[p].existing.content,
                            !.modified_date = n]}
        \/ /\ Moves(p, "delete_commit", "delete_reread")
           /\ \E old \in notes :
                  /\ old.id = r.note_id
                  /\ notes' = (notes \ {old}) \cup
                         {[old EXCEPT !.deleted_date = n, !.modified_date = n]}

\* C12: a step that answers NotFound, InvalidArgument or a failure, and a
\* handler interrupted between its write and its commit, leave the table as
\* it was and no write pending; the table changes only in a commit, which
\* applies one whole Create, Update or SoftDelete.
C12_AllOrNothing ==
    [][/\ resp'.status \in {NotFound, BadRequest, ServerError} =>
              notes' = notes /\ seq' = seq
       /\ \A p \in Procs :
              pc[p] \in CommitLabels /\ pc'[p] = "idle" =>
                  /\ notes' = notes /\ seq' = seq
                  /\ txn'[p] = NoTxn
       /\ \A p \in Procs : pc'[p] = "idle" => txn'[p] = NoTxn
       /\ (notes' # notes \/ seq' # seq) => \E p \in Procs : AppliesWhole(p)]_vars

\* A SoftDelete was interrupted after its write: no request is in progress
\* and the note is active as before.
C12_Witness ==
    /\ resp = Error(DeleteReq(1), ServerError)
    /\ \A p \in Procs : pc[p] = "idle" /\ txn[p] = NoTxn
    /\ IsActive(1)

\* C13 as stated: on an empty store Create("T", "C") returns id 1 with
\* created_date = modified_date = t0, and a following Update(1, content =
\* "C2") returns title "T", content "C2" and a modified_date strictly
\* greater than t0.
C13_UpdateStrictlyLater ==
    /\ (resp.req.op = "create" /\ resp.status = Created) =>
           /\ resp.note.id = 1
           /\ resp.note.title = StrT /\ resp.note.content = StrCap
           /\ resp.note.created_date = resp.note.modified_date
    /\ (resp.req.op = "update" /\ resp.status = OK) =>
           /\ resp.note.id = 1
           /\ resp.note.title = StrT /\ resp.note.content = StrCap2
           /\ resp.note.modified_date > resp.note.created_date

\* C13 as it holds: on an empty store Create("T", "C") returns id 1 with
\* created_date = modified_date = t0, the second it was received in, and a
\* following Update(1, content = "C2") returns title "T", content "C2", the
\* same created_date and as modified_date the second it was received in,
\* which is not before t0 and is t0 when the clock is still in that second.
C13_UpdateNotEarlier ==
    [][\A p \in Procs :
          /\ Returns(p, "create_reread") =>
                 /\ resp'.status = Created
                 /\ resp'.note =
                        Row(1, StrT, StrCap, local[p].now, local[p].now, NULL)
                 /\ local[p].now <= utc_now_iso
                 /\ notes' = {resp'.note}
          /\ pc[p] = "idle" /\ pc'[p] = "update_select" =>
                 /\ local'[p].now = clock \div TicksPerSecond
                 /\ \A r \in notes : local'[p].now >= r.created_date
          /\ Returns(p, "update_reread") =>
                 /\ resp'.status = OK
                 /\ resp'.note.id = 1
                 /\ resp'.note.title = StrT
                 /\ resp'.note.content = StrCap2
                 /\ resp'.note.created_date = RowOf(1).created_date
                 /\ resp'.note.modified_date = local[p].now
                 /\ resp'.note.modified_date >= resp'.note.created_date
                 /\ resp'.note.deleted_date = NULL
                 /\ notes' = {resp'.note}]_vars

\* The Update that follows the Create within the same second has returned
\* "T", "C2" and a modified_date equal to t0.
C13_Witness ==
    /\ resp.req = UpdateReq(1, None, StrCap2)
    /\ resp.status = OK
    /\ resp.note.title = StrT
    /\ resp.note.content = StrCap2
    /\ resp.note.modified_date = resp.note.created_date
    /\ notes = {resp.note}

\* C14: a request that is not being handled holds no connection and no
\* pending write, whichever way its handler was left (return, 404, a failed
\* write, an interruption); a pending write lives on an open connection of
\* the request that made it; when no request is in progress no connection is
\* open.
C14_ConnectionsClosed ==
    /\ \A p \in Procs : pc[p] = "idle" => ~conn[p] /\ txn[p] = NoTxn
    /\ \A p \in Procs : txn[p] # NoTxn => conn[p]
    /\ \A p \in Procs :
           conn[p] <=> pc[p] \in {"list_rows", "create_commit", "create_reread",
                                  "update_write", "update_commit", "update_reread",
                                  "delete_write", "delete_commit", "delete_reread"}
    /\ (\A p \in Procs : pc[p] = "idle") => conn = [p \in Procs |-> FALSE]

\* An Update has failed after its SELECT, with its connection open, and no
\* request is in progress: no connection is open.
C14_Witness ==
    /\ resp.req.op = "update"
    /\ resp.status = ServerError
    /\ \A p \in Procs : pc[p] = "idle" /\ ~conn[p]

\* C15: every stored note stays stored with the id and the created_date it
\* has, whatever Update and SoftDelete do to it; no two stored notes have
\* the same id, and a new note's id is larger than every id stored before.
C15_IdAndCreatedDateFixed ==
    [][/\ \A r \in notes :
              \E r2 \in notes' : r2.id = r.id /\ r2.created_date = r.created_date
       /\ \A r, r2 \in notes' : r.id = r2.id => r = r2
       /\ \A r2 \in notes' :
              (\A r \in notes : r.id # r2.id) => \A r \in notes : r.id < r2.id]_vars

\* Two notes are stored; the first was updated and then soft-deleted at a
\* later second than it was created, the second was updated.
C15_Witness ==
    /\ {r.id : r \in notes} = {1, 2}
    /\ Cardinality(notes) = 2
    /\ IsDeleted(1)
    /\ RowOf(1).title = StrA /\ RowOf(1).content = Empty
    /\ RowOf(1).deleted_date > RowOf(1).created_date
    /\ RowOf(2).title = Empty /\ RowOf(2).content = StrX

\* C16: of the SoftDelete requests for one id that run concurrently at most
\* one returns success, and one that returns after another's success answers
\* NotFound; a deleted_date, once written, keeps its value.
C16_OneSoftDeleteWins ==
    [][/\ \A i \in DOMAIN del_ok' : del_ok'[i] <= 1
       /\ \A p \in Procs :
              (pc[p] \in {"delete_select", "delete_reread"} /\ pc'[p] = "idle"
                  /\ req[p].note_id \in DOMAIN del_ok) =>
                  resp' = Error(req[p], NotFound)
       /\ \A r \in notes :
              r.deleted_date # NULL =>
                  \E r2 \in notes' :
                      r2.id = r.id /\ r2.deleted_date = r.deleted_date]_vars

\* C17: the commit of an Update that gives only a title leaves the stored
\* content as it is, and one that gives only a content leaves the stored
\* title as it is; so of two concurrent Updates, one of the title and one of
\* the content, both take effect.
C17_DisjointUpdatesBothApply ==
    [][\A p \in Procs :
          Moves(p, "update_commit", "update_reread") =>
              /\ req[p].title = None =>
                     RowOfNext(req[p].note_id).title = RowOf(req[p].note_id).title
              /\ req[p].content = None =>
                     RowOfNext(req[p].note_id).content =
                         RowOf(req[p].note_id).content]_vars

\* C18: the total and the items of a List result describe one state of the
\* store, also with Create and SoftDelete requests running beside it: the
\* result has min(limit, max(0, total - offset)) items.
C18_ListTotalMatchesItems ==
    (resp.req.op = "list" /\ resp.status = OK) =>
        Len(resp.page.items) =
            Min(resp.page.limit, Max(0, resp.page.total - resp.page.offset))

\* C19: every soft-deleted note has modified_date = deleted_date, in every
\* reachable state, whatever the order and interleaving of the requests.
C19_DeletedModifiedAtDeletion ==
    \A r \in notes : r.deleted_date # NULL => r.modified_date = r.deleted_date

====
